---- MODULE Spec2Model ----
(***************************************************************************)
(* Model of gotostate.py: parse_failure_history (the reverse walk over    *)
(* the execution history of a failed Step Functions execution) and        *)
(* attach_go_to_state (insertion of the GoToState choice state).          *)
(***************************************************************************)
EXTENDS Integers, Sequences, FiniteSets, TLC

VARIABLES
    pc,                        \* position in the function being modelled
    failed_events,             \* parse_failure_history: the history, most recent first
    current_event_id,          \* parse_failure_history: cursor of the while loop
    failed_at_parallel_state,  \* parse_failure_history: the flag
    visited,                   \* list positions (0-based) read by the loop, in order
    result,                    \* outcome of parse_failure_history
    definition,                \* attach_go_to_state: json.loads(response['definition'])
    state_machine,             \* attach_go_to_state: the dict after the two assignments
    failed_state_name,         \* attach_go_to_state: its first argument
    grafts                     \* number of times attach_go_to_state has run

vars == <<pc, failed_events, current_event_id, failed_at_parallel_state, visited,
          result, definition, state_machine, failed_state_name, grafts>>

(***************************************************************************)
(* Bounds                                                                  *)
(***************************************************************************)
MaxEvents == 4
MaxGrafts == 2

(***************************************************************************)
(* Events.  A missing key of the event dict is the empty sequence, a       *)
(* present one a one-element sequence holding the details record.          *)
(***************************************************************************)
Absent == <<>>

EnteredTypes == {"TaskStateEntered", "ParallelStateEntered"}
PlainTypes == {"ParallelStateFailed", "TaskStateExited"}
EventNames == {"A", "T"}

\* (type, name) of the events below the first one
Kinds == (EnteredTypes \X EventNames) \cup (PlainTypes \X {"-"})

Event(id, kind, prev) ==
    [id |-> id, type |-> kind[1], previousEventId |-> prev,
     stateEnteredEventDetails |->
        IF kind[1] \in EnteredTypes THEN <<[name |-> kind[2], input |-> id]>> ELSE Absent,
     executionFailedEventDetails |-> Absent]

\* cause strings: a sequence of whitespace-separated tokens, a token a sequence of characters
Word == <<"w">>
Prefix13 == [i \in 1..13 |-> Word]
DigitChars == <<"0", "1", "2", "3", "4", "5", "6", "7", "8", "9">>
DigitChar(d) == DigitChars[d + 1]
IdToken(chars) == <<"#">> \o chars \o <<")", ".">>
Numeral(k) == IF k < 10 THEN <<DigitChar(k)>> ELSE <<DigitChar(k \div 10), DigitChar(k % 10)>>
\* the id in the 14th token of the cause of a States.Runtime failure
CauseIds == 0..(MaxEvents + 1) \cup {10}
Causes ==
    {Prefix13 \o <<IdToken(Numeral(k))>> : k \in CauseIds}
      \cup {Prefix13 \o <<IdToken(<<>>)>>, Prefix13}

FirstEvent(id, type, prev, det) ==
    [id |-> id, type |-> type, previousEventId |-> prev,
     stateEnteredEventDetails |-> Absent,
     executionFailedEventDetails |-> det]

\* previousEventId of every event is the id of an earlier event, or 0
PrevFns(n) == {f \in [1..n -> 0..(n - 1)] : \A i \in 1..n : f[i] < i}
\* every event follows the one recorded just before it
Linear(n) == [i \in 1..n |-> i - 1]

\* A history of n events, most recent first: ids n, n-1, .., 1
History(n, first, kinds, prevs) ==
    [p \in 1..n |->
        IF p = 1 THEN FirstEvent(n, first[1], prevs[n], first[2])
        ELSE Event(n - p + 1, kinds[n - p + 1], prevs[n - p + 1])]

TaskFailure == <<"ExecutionFailed", <<[error |-> "States.TaskFailed", cause |-> <<Word>>]>> >>
RuntimeFailures ==
    {<<"ExecutionFailed", <<[error |-> "States.Runtime", cause |-> c]>> >> : c \in Causes}
\* first events of executions that did not fail
OtherFirsts ==
    {<<t, Absent>> : t \in {"ExecutionSucceeded", "ExecutionAborted", "TaskStateExited"}}

\* The histories get_execution_history can assemble (lines 31-53): failed executions
\* with every shape of predecessor chain; States.Runtime failures and executions
\* that did not fail with the events in one thread; and the empty history.
IsHistory(events) ==
    \/ events = <<>>
    \/ \E n \in 1..MaxEvents : \E kinds \in [1..(n - 1) -> Kinds] :
          \/ \E prevs \in PrevFns(n) : events = History(n, TaskFailure, kinds, prevs)
          \/ \E first \in RuntimeFailures \cup OtherFirsts :
                events = History(n, first, kinds, Linear(n))

(***************************************************************************)
(* Python list indexing and dict lookup                                    *)
(***************************************************************************)
\* l[i] raises IndexError
IndexError(l, i) == IF i >= 0 THEN i >= Len(l) ELSE -i > Len(l)
\* 0-based position that l[i] reads
ListPos(l, i) == IF i >= 0 THEN i ELSE Len(l) + i
ListGet(l, i) == l[ListPos(l, i) + 1]
HasKey(event, key) == event[key] # Absent
Details(event, key) == event[key][1]

\* filter(str.isdigit, token) and int(..) of it
IsDigit(c) == \E d \in 0..9 : DigitChar(d) = c
DigitValue(c) == CHOOSE d \in 0..9 : DigitChar(d) = c
FilterDigits(token) == SelectSeq(token, IsDigit)
RECURSIVE IntOf(_)
IntOf(digits) ==
    IF Len(digits) = 0 THEN 0
    ELSE 10 * IntOf(SubSeq(digits, 1, Len(digits) - 1)) + DigitValue(digits[Len(digits)])

(***************************************************************************)
(* Outcomes of parse_failure_history                                       *)
(***************************************************************************)
NoResult == [kind |-> "pending", name |-> "-", input |-> 0, error |-> "-"]
Return(name, input) == [kind |-> "return", name |-> name, input |-> input, error |-> "-"]
ReturnNone == [kind |-> "none", name |-> "-", input |-> 0, error |-> "-"]
Raise(error) == [kind |-> "raise", name |-> "-", input |-> 0, error |-> error]

NoMachine == [StartAt |-> "-", States |-> <<>>]

LocateUnchanged == UNCHANGED <<definition, state_machine, failed_state_name, grafts>>

\* a variant that only notices the empty history
DidNotFail_EmptyOnly(events) == IndexError(events, 0)

\* lines 56-58: failed_events[0]['executionFailedEventDetails'] raises (IndexError, KeyError)
DidNotFail(events) ==
    IndexError(events, 0) \/ ~HasKey(ListGet(events, 0), "executionFailedEventDetails")

\* lines 55-59: the lookup inside try/except, and the exception raised in its place
ConfirmFailed ==
    /\ pc = "confirm"
    /\ IF DidNotFail(failed_events)
       THEN /\ result' = Raise("Execution did not fail")
            /\ pc' = "raised"
       ELSE /\ result' = result
            /\ pc' = "error_code"
    /\ UNCHANGED <<failed_events, current_event_id, failed_at_parallel_state, visited>>
    /\ LocateUnchanged

\* a variant that indexes from the front of the list
RuntimeLookup_FromFront(events, failed_id) ==
    IF IndexError(events, failed_id) THEN Raise("IndexError")
    ELSE IF ~HasKey(ListGet(events, failed_id), "stateEnteredEventDetails") THEN Raise("KeyError")
    ELSE LET d == Details(ListGet(events, failed_id), "stateEnteredEventDetails")
         IN  Return(d.name, d.input)

\* lines 68-70: the lookups at failed_events[-1 * failed_id]
RuntimeLookup(events, failed_id) ==
    IF IndexError(events, -1 * failed_id) THEN Raise("IndexError")
    ELSE IF ~HasKey(ListGet(events, -1 * failed_id), "stateEnteredEventDetails") THEN Raise("KeyError")
    ELSE LET d == Details(ListGet(events, -1 * failed_id), "stateEnteredEventDetails")
         IN  Return(d.name, d.input)

\* line 67: int(filter(str.isdigit, str(cause.split()[13]))), then lines 68-70
RuntimeResult(events) ==
    LET cause == Details(ListGet(events, 0), "executionFailedEventDetails").cause
    IN  IF IndexError(cause, 13) THEN Raise("IndexError")
        ELSE IF Len(FilterDigits(ListGet(cause, 13))) = 0 THEN Raise("ValueError")
        ELSE RuntimeLookup(events, IntOf(FilterDigits(ListGet(cause, 13))))

\* line 66
IsRuntimeError(events) ==
    Details(ListGet(events, 0), "executionFailedEventDetails").error = "States.Runtime"

\* lines 66-70: the States.Runtime path
RuntimeError ==
    /\ pc = "error_code"
    /\ IsRuntimeError(failed_events)
    /\ result' = RuntimeResult(failed_events)
    /\ pc' = IF result'.kind = "raise" THEN "raised" ELSE "returned"
    /\ UNCHANGED <<failed_events, current_event_id, failed_at_parallel_state, visited>>
    /\ LocateUnchanged

\* a variant that starts the cursor at the predecessor of the ExecutionFailed event
StartId_Predecessor(events) == ListGet(events, 0).previousEventId

\* line 81
StartId(events) == ListGet(events, 0).id

\* lines 66, 81: not a States.Runtime error, the cursor starts at the id of failed_events[0]
StartTrace ==
    /\ pc = "error_code"
    /\ ~IsRuntimeError(failed_events)
    /\ current_event_id' = StartId(failed_events)
    /\ pc' = "loop"
    /\ UNCHANGED <<failed_events, failed_at_parallel_state, visited, result>>
    /\ LocateUnchanged

\* lines 90-91
FlagAfter(event, flag) == flag \/ event.type = "ParallelStateFailed"

\* a variant that stops at a TaskStateEntered event whatever the flag
Stops_IgnoringFlag(event, flag) ==
    \/ event.type = "TaskStateEntered"
    \/ event.type = "ParallelStateEntered" /\ flag

\* lines 97, 105: the event ends the walk
Stops(event, flag) ==
    \/ event.type = "TaskStateEntered" /\ ~flag
    \/ event.type = "ParallelStateEntered" /\ flag

\* lines 98-100, 106-108
StopResult(event) ==
    IF ~HasKey(event, "stateEnteredEventDetails") THEN Raise("KeyError")
    ELSE Return(Details(event, "stateEnteredEventDetails").name,
                Details(event, "stateEnteredEventDetails").input)

\* a variant that steps to the event recorded just before, not to previousEventId
NextId_Adjacent(event) == event.id - 1

\* line 110
NextId(event) == event.previousEventId

\* lines 82-110: one iteration of the while loop
TraceStep ==
    /\ pc = "loop"
    /\ current_event_id # 0
    /\ IF IndexError(failed_events, -1 * current_event_id)
       THEN /\ result' = Raise("IndexError")
            /\ pc' = "raised"
            /\ UNCHANGED <<current_event_id, failed_at_parallel_state, visited>>
       ELSE LET current_event == ListGet(failed_events, -1 * current_event_id)
                flag == FlagAfter(current_event, failed_at_parallel_state)
            IN  /\ visited' = Append(visited, ListPos(failed_events, -1 * current_event_id))
                /\ failed_at_parallel_state' = flag
                /\ IF Stops(current_event, flag)
                   THEN /\ result' = StopResult(current_event)
                        /\ pc' = IF result'.kind = "raise" THEN "raised" ELSE "returned"
                        /\ UNCHANGED current_event_id
                   ELSE /\ current_event_id' = NextId(current_event)
                        /\ UNCHANGED <<pc, result>>
    /\ UNCHANGED failed_events
    /\ LocateUnchanged

\* what the function gives back when the while loop ends (no return statement follows it)
LoopEndResult == ReturnNone

\* lines 82, 110: the loop condition fails, the function body ends
TraceEnd ==
    /\ pc = "loop"
    /\ current_event_id = 0
    /\ result' = LoopEndResult
    /\ pc' = "returned"
    /\ UNCHANGED <<failed_events, current_event_id, failed_at_parallel_state, visited>>
    /\ LocateUnchanged

InitLocate ==
    /\ pc = "confirm"
    /\ IsHistory(failed_events)
    /\ current_event_id = 0
    /\ failed_at_parallel_state = FALSE
    /\ visited = <<>>
    /\ result = NoResult
    /\ definition = NoMachine
    /\ state_machine = NoMachine
    /\ failed_state_name = "-"
    /\ grafts = 0

NextLocate == ConfirmFailed \/ RuntimeError \/ StartTrace \/ TraceStep \/ TraceEnd

SpecLocate == InitLocate /\ [][NextLocate]_vars

(***************************************************************************)
(* attach_go_to_state                                                      *)
(***************************************************************************)
StateNames == {"A", "B", "GoToState"}
\* names attach_go_to_state can be given: the states of the machine, and "T", a state
\* inside a branch of a Parallel state (not a key of States)
TargetNames == StateNames \cup {"T"}

TaskState(next) ==
    IF next = "-" THEN [Type |-> "Task", End |-> TRUE] ELSE [Type |-> "Task", Next |-> next]

\* the definitions describe_state_machine returns for a machine nobody has grafted yet
IsDefinition(d) ==
    \E keys \in (SUBSET StateNames) \ {{}} : \E start \in keys :
        \E nexts \in [keys -> keys \cup {"-"}] :
            d = [StartAt |-> start, States |-> [k \in keys |-> TaskState(nexts[k])]]

\* d[key] = value on a dict
DictSet(d, key, value) == [k \in DOMAIN d \cup {key} |-> IF k = key THEN value ELSE d[k]]

\* a variant with the two targets exchanged
GoToState_Swapped(original_start_at, name) ==
    [Type |-> "Choice",
     Choices |-> <<[Variable |-> "$.resuming", BooleanEquals |-> FALSE, Next |-> name]>>,
     Default |-> original_start_at]

\* lines 140-144
GoToState(original_start_at, name) ==
    [Type |-> "Choice",
     Choices |-> <<[Variable |-> "$.resuming", BooleanEquals |-> FALSE, Next |-> original_start_at]>>,
     Default |-> name]

\* line 146
StatesAfter(machine, name) ==
    DictSet(machine.States, "GoToState", GoToState(machine.StartAt, name))

\* line 148
StartAtAfter(machine) == "GoToState"

\* lines 134-148
AttachGoToState(machine, name) ==
    [StartAt |-> StartAtAfter(machine), States |-> StatesAfter(machine, name)]

GraftUnchanged ==
    UNCHANGED <<failed_events, current_event_id, failed_at_parallel_state, visited, result>>

\* lines 130-148: the definition is read, GoToState is added and StartAt repointed
Attach ==
    /\ pc = "attach"
    /\ state_machine' = AttachGoToState(definition, failed_state_name)
    /\ grafts' = grafts + 1
    /\ pc' = "created"
    /\ UNCHANGED <<definition, failed_state_name>>
    /\ GraftUnchanged

\* lines 124-130 after 151-155: the script runs again, for a failed execution of the
\* machine it created, so describe_state_machine returns the definition it built
AttachAgain ==
    /\ pc = "created"
    /\ grafts < MaxGrafts
    /\ definition' = state_machine
    /\ failed_state_name' \in TargetNames
    /\ pc' = "attach"
    /\ UNCHANGED <<state_machine, grafts>>
    /\ GraftUnchanged

InitGraft ==
    /\ pc = "attach"
    /\ failed_events = <<>>
    /\ current_event_id = 0
    /\ failed_at_parallel_state = FALSE
    /\ visited = <<>>
    /\ result = NoResult
    /\ IsDefinition(definition)
    /\ state_machine = NoMachine
    /\ failed_state_name \in TargetNames
    /\ grafts = 0

NextGraft == Attach \/ AttachAgain

SpecGraft == InitGraft /\ [][NextGraft]_vars

(***************************************************************************)
(* Properties of parse_failure_history (checked under SpecLocate)          *)
(***************************************************************************)
Done == pc \in {"returned", "raised"}

\* the history starts with the ExecutionFailed event
Failed(events) == Len(events) >= 1 /\ events[1].type = "ExecutionFailed"
\* a failed execution whose error code is not States.Runtime
GeneralPath(events) ==
    Failed(events) /\ events[1].executionFailedEventDetails[1].error # "States.Runtime"

EventById(events, k) == CHOOSE e \in {events[i] : i \in 1..Len(events)} : e.id = k

\* the events reached from id k by following previousEventId down to 0
RECURSIVE ChainFrom(_, _)
ChainFrom(events, k) ==
    IF k = 0 THEN <<>>
    ELSE <<EventById(events, k)>> \o ChainFrom(events, EventById(events, k).previousEventId)

\* the predecessor chain of the ExecutionFailed event, nearest predecessor first
Predecessors(events) == ChainFrom(events, events[1].previousEventId)

\* index of the first event of the type on the chain after index from, 0 if there is none
FirstAfter(chain, type, from) ==
    LET hits == {i \in (from + 1)..Len(chain) : chain[i].type = type}
    IN  IF hits = {} THEN 0 ELSE CHOOSE i \in hits : \A j \in hits : i <= j

ReturnOf(event) ==
    Return(event.stateEnteredEventDetails[1].name, event.stateEnteredEventDetails[1].input)

\* C1: on a failed execution with no ParallelStateFailed event on the predecessor chain
\* of the ExecutionFailed event, parse_failure_history returns the name and input of
\* the first TaskStateEntered event met when following previousEventId back from it.
C1_FlatFailure ==
    (Done /\ GeneralPath(failed_events)) =>
        LET chain == Predecessors(failed_events)
            t == FirstAfter(chain, "TaskStateEntered", 0)
        IN  (FirstAfter(chain, "ParallelStateFailed", 0) = 0 /\ t # 0) =>
                result = ReturnOf(chain[t])

\* a flat failure whose nearest TaskStateEntered is not the immediate predecessor
C1_Witness ==
    /\ Done /\ GeneralPath(failed_events)
    /\ LET chain == Predecessors(failed_events)
           t == FirstAfter(chain, "TaskStateEntered", 0)
       IN  /\ FirstAfter(chain, "ParallelStateFailed", 0) = 0
           /\ t >= 2
           /\ result = ReturnOf(chain[t])

ParallelFailure(chain) ==
    LET f == FirstAfter(chain, "ParallelStateFailed", 0)
        t == FirstAfter(chain, "TaskStateEntered", 0)
    IN  f # 0 /\ (t = 0 \/ f < t)

C3_NotFailed ==
    (pc # "confirm" /\ ~Failed(failed_events)) =>
        (pc = "raised" /\ result = Raise("Execution did not fail"))

\* a non-empty history of an execution that did not fail has been rejected
C3_Witness ==
    /\ pc = "raised"
    /\ Len(failed_events) >= 2
    /\ failed_events[1].type # "ExecutionFailed"
    /\ result = Raise("Execution did not fail")

\* C4: when the walk reaches id 0 without meeting a termination condition,
\* parse_failure_history fails visibly instead of completing with an empty result.
C4_NoFailedStateFound ==
    (Done /\ GeneralPath(failed_events) /\ current_event_id = 0) => result.kind = "raise"

\* C9: a States.Runtime failure whose 14th cause token holds the digits of k is
\* answered without any walk, from the event at list position N - k.
C9_RuntimePath ==
    \A k \in CauseIds :
        (/\ Done /\ Failed(failed_events) /\ ~GeneralPath(failed_events)
         /\ Len(failed_events[1].executionFailedEventDetails[1].cause) >= 14
         /\ failed_events[1].executionFailedEventDetails[1].cause[14] = IdToken(Numeral(k)))
        => LET n == Len(failed_events) IN
           /\ visited = <<>>
           /\ current_event_id = 0
           /\ IF k \in 1..n /\ failed_events[(n - k) + 1].stateEnteredEventDetails # Absent
              THEN result = ReturnOf(failed_events[(n - k) + 1])
              ELSE result.kind = "raise"

\* a States.Runtime failure naming event 2 of a four-event history was answered
C9_Witness ==
    /\ pc = "returned" /\ Failed(failed_events) /\ ~GeneralPath(failed_events)
    /\ Len(failed_events) = 4
    /\ failed_events[1].executionFailedEventDetails[1].cause[14] = IdToken(Numeral(2))
    /\ result = ReturnOf(failed_events[3])

\* the walk reads, after its first event, the event named by the previousEventId of the
\* event read before it; no event twice; every read inside the list; at most N reads;
\* and it ends by returning a pair or with the cursor at 0
WalkFollowsChain ==
    /\ \A i \in 2..Len(visited) :
          failed_events[visited[i] + 1].id = failed_events[visited[i - 1] + 1].previousEventId
    /\ \A i, j \in 1..Len(visited) : i # j => visited[i] # visited[j]
    /\ \A i \in 1..Len(visited) : visited[i] \in 0..(Len(failed_events) - 1)
    /\ Len(visited) <= Len(failed_events)
    /\ pc = "loop" => ENABLED (TraceStep \/ TraceEnd)
    /\ Done => (result.kind = "return" \/ (result.kind = "none" /\ current_event_id = 0))

\* C10 as stated: the first event the walk reads is the one named by the
\* ExecutionFailed event's previousEventId.
C10_StartsAtPredecessor ==
    (GeneralPath(failed_events) /\ pc \in {"loop", "returned", "raised"}) =>
        /\ WalkFollowsChain
        /\ Len(visited) >= 1 =>
              failed_events[visited[1] + 1].id = failed_events[1].previousEventId

\* C10 (amended): the walk starts at the ExecutionFailed event itself (the cursor starts
\* at its own id), then follows previousEventId one event at a time, each event at most
\* once, every read inside the list, and ends within N reads.
C10_StartsAtFailure ==
    (GeneralPath(failed_events) /\ pc \in {"loop", "returned", "raised"}) =>
        /\ WalkFollowsChain
        /\ Len(visited) >= 1 => visited[1] = 0
        /\ (Done \/ current_event_id = 0) => Len(visited) >= 1

\* a walk that read every event of a four-event history and ended with the cursor at 0
C10_Witness ==
    /\ Done /\ GeneralPath(failed_events)
    /\ Len(failed_events) = 4
    /\ Len(visited) = 4
    /\ current_event_id = 0

(***************************************************************************)
(* Properties of attach_go_to_state (checked under SpecGraft)              *)
(***************************************************************************)
Keys(machine) == DOMAIN machine.States

\* the names a state record refers to
Refs(state) ==
    (IF "Next" \in DOMAIN state THEN {state.Next} ELSE {})
      \cup (IF "Default" \in DOMAIN state THEN {state.Default} ELSE {})
      \cup (IF "Choices" \in DOMAIN state
            THEN {state.Choices[i].Next : i \in 1..Len(state.Choices)} ELSE {})

\* StartAt and every Next, Default names a key of States
ValidGraph(machine) ==
    /\ machine.StartAt \in Keys(machine)
    /\ \A k \in Keys(machine) : Refs(machine.States[k]) \subseteq Keys(machine)

\* C5: every state of the definition is in the result under the same name with the
\* same body, States has exactly one more key, and StartAt is changed.
C5_Preserved ==
    pc = "created" =>
        /\ \A k \in Keys(definition) :
              k \in Keys(state_machine) /\ state_machine.States[k] = definition.States[k]
        /\ Cardinality(Keys(state_machine)) = Cardinality(Keys(definition)) + 1
        /\ state_machine.StartAt # definition.StartAt

\* C6: attach_go_to_state never completes on a definition that already has a state
\* named GoToState.
C6_NameCollision ==
    ~(pc = "created" /\ "GoToState" \in Keys(definition))

\* C7: grafting a definition whose references all resolve gives a definition whose
\* references all resolve.
C7_ValidGraph ==
    (pc = "created" /\ ValidGraph(definition)) => ValidGraph(state_machine)

\* inputs of an execution of the new machine: resuming true, false, or not given
ResumingInputs == {[resuming |-> TRUE], [resuming |-> FALSE], [other |-> TRUE]}

\* the state a Choice state with BooleanEquals rules on $.resuming goes to
RECURSIVE ChoiceTarget(_, _, _)
ChoiceTarget(state, input, i) ==
    IF i > Len(state.Choices) THEN state.Default
    ELSE IF /\ state.Choices[i].Variable = "$.resuming"
            /\ "resuming" \in DOMAIN input
            /\ input.resuming = state.Choices[i].BooleanEquals
         THEN state.Choices[i].Next
         ELSE ChoiceTarget(state, input, i + 1)

====
